---- MODULE Spec2Model ----
(***************************************************************************)
(* Model of disqus/templatetags/disqus_tags.py: the four context-setter    *)
(* template tags (compile + render), get_config, and the six widget tags.  *)
(*                                                                         *)
(* Text is a sequence of atoms (a free monoid): an atom is one piece of    *)
(* text that the code never splits (a format-string fragment, a name, a    *)
(* quote character).  Concatenation is \o.                                 *)
(* A Python value is a record [t, s, n]: t is the type tag, s the text of  *)
(* a string, n the number of an int / bool / float.                        *)
(***************************************************************************)
EXTENDS Integers, Sequences, FiniteSets, TLC

VARIABLES settings, phase, nodes, pc, context, written, call

vars == <<settings, phase, nodes, pc, context, written, call>>

\* ---------------------------------------------------------------- bounds
\* most setter tags in one template
MaxNodes == 2
\* most argument tokens in one template (all tags together)
MaxTokens == 3

\* ---------------------------------------------------------------- values
StrV(s) == [t |-> "str", s |-> s, n |-> 0]
IntV(n) == [t |-> "int", s |-> <<>>, n |-> n]
BoolV(b) == [t |-> "bool", s |-> <<>>, n |-> IF b THEN 1 ELSE 0]
FloatV(n) == [t |-> "float", s |-> <<>>, n |-> n]
NoneV == [t |-> "none", s |-> <<>>, n |-> 0]

Q == "\""

\* Python's == between two values: numbers (int, bool, float) compare by
\* number, strings by text, and a string never equals a number.
PyEq(a, b) ==
    LET num == {"int", "bool", "float"}
    IN  \/ a.t \in num /\ b.t \in num /\ a.n = b.n
        \/ a.t = "str" /\ b.t = "str" /\ a.s = b.s
        \/ a.t = "none" /\ b.t = "none"

\* x in <list>: some element == x
PyIn(x, list) == \E i \in 1..Len(list) : PyEq(x, list[i])

\* isinstance(x, int): bool is a subclass of int
IsInstanceInt(x) == x.t \in {"int", "bool"}

\* ------------------------------------------------------ module constants
VALID_SIZES ==
    <<[k |-> <<"small">>, v |-> 24], [k |-> <<"medium">>, v |-> 32],
      [k |-> <<"large">>, v |-> 48], [k |-> <<"x-large">>, v |-> 96],
      [k |-> <<"ginormous">>, v |-> 128]>>

VALID_TRUE ==
    <<StrV(<<"1">>), StrV(<<"True">>), StrV(<<"true">>), StrV(<<"T">>),
      StrV(<<"t">>), IntV(1), BoolV(TRUE)>>

VALID_COLORS ==
    <<StrV(<<"blue">>), StrV(<<"grey">>), StrV(<<"green">>), StrV(<<"red">>),
      StrV(<<"orange">>)>>

VALID_TABS == <<StrV(<<"people">>), StrV(<<"recent">>), StrV(<<"popular">>)>>

\* the four registered setter tags: tag name |-> context key
SetterTags ==
    {[name |-> "set_disqus_developer", var_name |-> "disqus_developer"],
     [name |-> "set_disqus_identifier", var_name |-> "disqus_identifier"],
     [name |-> "set_disqus_url", var_name |-> "disqus_url"],
     [name |-> "set_disqus_title", var_name |-> "disqus_title"]}

conf_vars == <<"disqus_developer", "disqus_identifier", "disqus_url", "disqus_title">>

\* ------------------------------------------------------ template tokens
\* A token of split_contents() is raw text: a quoted literal keeps its
\* quotes, a bare token is one name or one number.
Quoted(text) == <<Q>> \o text \o <<Q>>
Tokens == {Quoted(<<"disqus_url">>), <<"disqus_url">>, <<"1">>}

\* the contexts the host view may hand to the render: nothing bound, or
\* disqus_url bound by the view itself (to a number, so that its text differs
\* from the value) beside a name that is no disqus setting
ViewContexts ==
    {[x \in {} |-> NoneV],
     [x \in {"disqus_url", "u"} |-> IF x = "u" THEN StrV(<<"v">>) ELSE IntV(5)]}

IsQuoted(tok) == Len(tok) >= 2 /\ Head(tok) = Q /\ tok[Len(tok)] = Q
IsNumber(tok) == \E n \in 0..9 : tok = <<ToString(n)>>

\* mutant: a bare token is never looked up, it is its own text
Variable_resolve_NoLookup(tok, ctx) ==
    IF IsNumber(tok)
    THEN [exc |-> "none", val |-> IntV(CHOOSE n \in 0..9 : tok = <<ToString(n)>>)]
    ELSE IF IsQuoted(tok)
    THEN [exc |-> "none", val |-> StrV(SubSeq(tok, 2, Len(tok) - 1))]
    ELSE [exc |-> "none", val |-> StrV(tok)]

\* django.template.Variable(value).resolve(context): a number is a number
\* literal, quoted text is a string literal without its quotes, anything else
\* is looked up in the context and raises VariableDoesNotExist when absent.
Variable_resolve(tok, ctx) ==
    IF IsNumber(tok)
    THEN [exc |-> "none", val |-> IntV(CHOOSE n \in 0..9 : tok = <<ToString(n)>>)]
    ELSE IF IsQuoted(tok)
    THEN [exc |-> "none", val |-> StrV(SubSeq(tok, 2, Len(tok) - 1))]
    ELSE IF tok[1] \in DOMAIN ctx
    THEN [exc |-> "none", val |-> ctx[tok[1]]]
    ELSE [exc |-> "VariableDoesNotExist", val |-> NoneV]

\* self.var_value.var: self.var_value is the list bits[1:], and a list has
\* no attribute var.
GetAttrVar(self_var_value) == [exc |-> "AttributeError", val |-> NoneV]

\* ContextSetterNode._get_value
GetValue(self_var_value, value, ctx) ==
    LET r == Variable_resolve(value, ctx)
    IN  IF r.exc = "VariableDoesNotExist" THEN GetAttrVar(self_var_value) ELSE r

\* django.utils.encoding.force_unicode
force_unicode(v) ==
    CASE v.t = "str" -> v.s
      [] v.t = "int" -> <<ToString(v.n)>>
      [] v.t = "float" -> <<ToString(v.n), ".0">>
      [] v.t = "bool" -> IF v.n = 1 THEN <<"True">> ELSE <<"False">>
      [] v.t = "none" -> <<"None">>

RECURSIVE Join(_, _)
\* sep.join(parts)
Join(parts, sep) ==
    IF parts = <<>> THEN <<>>
    ELSE IF Len(parts) = 1 THEN parts[1]
    ELSE parts[1] \o sep \o Join(Tail(parts), sep)

\* mutant: a key already in the context keeps its value (setdefault)
ContextSet_KeepFirst(ctx, key, value) ==
    [x \in DOMAIN ctx \cup {key} |-> IF x \in DOMAIN ctx THEN ctx[x] ELSE value]

\* context[key] = value
ContextSet(ctx, key, value) ==
    [x \in DOMAIN ctx \cup {key} |-> IF x = key THEN value ELSE ctx[x]]

\* ContextSetterNode.render: the list branch (the compiler always passes the
\* list bits[1:]).  The list comprehension resolves the tokens left to right
\* and the first exception leaves it.  value is the local var_value.
RenderNode(node, ctx) ==
    LET toks == node.var_value
        got == [i \in 1..Len(toks) |-> GetValue(toks, toks[i], ctx)]
        bad == {i \in 1..Len(toks) : got[i].exc # "none"}
        var_value == StrV(Join([i \in 1..Len(toks) |-> force_unicode(got[i].val)], <<>>))
    IN  IF bad # {}
        THEN [exc |-> got[CHOOSE i \in bad : \A j \in bad : i <= j].exc,
              value |-> NoneV, ctx |-> ctx, ret |-> <<>>]
        ELSE [exc |-> "none", value |-> var_value,
              ctx |-> ContextSet(ctx, node.var_name, var_value), ret |-> <<>>]

\* mutant: the tag name is not counted among the bits
TooFewBits_OffByOne(bits) == Len(bits) < 1

\* len(bits) < 2
TooFewBits(bits) == Len(bits) < 2

\* generic_setter_compiler
Compile(tag, args) ==
    LET bits == <<<<tag.name>>>> \o args
    IN  IF TooFewBits(bits)
        THEN [exc |-> "TemplateSyntaxError", built |-> <<>>]
        ELSE [exc |-> "none",
              built |-> <<[var_name |-> tag.var_name, var_value |-> Tail(bits)]>>]

\* "%s" applied to a context value: its text
PercentS(v) == force_unicode(v)

\* '\tvar %s = "%s";' % (item, context[item])
ConfigLine(item, v) == <<"\tvar ", item, " = \"">> \o PercentS(v) \o <<"\";">>

\* mutant: every line ends with a newline
get_config_TrailingNewline(ctx) ==
    LET present == SelectSeq(conf_vars, LAMBDA item : item \in DOMAIN ctx)
    IN  Join([i \in 1..Len(present) |->
                ConfigLine(present[i], ctx[present[i]]) \o <<"\n">>], <<>>)

\* get_config
get_config(ctx) ==
    LET present == SelectSeq(conf_vars, LAMBDA item : item \in DOMAIN ctx)
    IN  Join([i \in 1..Len(present) |-> ConfigLine(present[i], ctx[present[i]])], <<"\n">>)

\* getattr(settings, 'DISQUS_WEBSITE_SHORTNAME', shortname)
GetShortname(stg, shortname) == IF stg.defined THEN stg.value ELSE shortname

\* disqus_show_comments and disqus_num_replies have the same body
disqus_show_comments(stg, ctx, shortname) ==
    [shortname |-> GetShortname(stg, shortname), config |-> get_config(ctx)]

disqus_num_replies(stg, ctx, shortname) ==
    [shortname |-> GetShortname(stg, shortname), config |-> get_config(ctx)]

\* ------------------------------------------------------------ the widgets
\* Python's int(x); a string is a number here when it is one decimal digit
PyInt(x) ==
    CASE x.t \in {"int", "bool", "float"} -> [exc |-> "none", n |-> x.n]
      [] x.t = "str" ->
           IF \E d \in 0..9 : x.s = <<ToString(d)>>
           THEN [exc |-> "none", n |-> CHOOSE d \in 0..9 : x.s = <<ToString(d)>>]
           ELSE [exc |-> "ValueError", n |-> 0]
      [] x.t = "none" -> [exc |-> "TypeError", n |-> 0]

\* int(x in VALID_TRUE)
IntInValidTrue(x) == IF PyIn(x, VALID_TRUE) THEN 1 ELSE 0

SizeValues == [i \in 1..Len(VALID_SIZES) |-> IntV(VALID_SIZES[i].v)]
SizeKeys == [i \in 1..Len(VALID_SIZES) |-> StrV(VALID_SIZES[i].k)]
\* VALID_SIZES[key]
SizeOf(key) == SizeValues[CHOOSE i \in 1..Len(VALID_SIZES) : PyEq(SizeKeys[i], key)]

\* the avatar_size branches of disqus_recent_comments_widget
RecentAvatarSize(avatar_size) ==
    IF IsInstanceInt(avatar_size)
    THEN IF ~PyIn(avatar_size, SizeValues) THEN IntV(32) ELSE avatar_size
    ELSE IF PyIn(avatar_size, SizeKeys) THEN SizeOf(avatar_size)
    ELSE IntV(32)

\* mutant: an integer is passed through unchecked
TopAvatarSize_NoClamp(avatar_size) ==
    IF IsInstanceInt(avatar_size) THEN avatar_size
    ELSE IF PyIn(avatar_size, SizeKeys) THEN SizeOf(avatar_size)
    ELSE IntV(32)

\* the avatar_size branches of disqus_top_commenters_widget
TopAvatarSize(avatar_size) ==
    IF IsInstanceInt(avatar_size)
    THEN IF ~PyIn(avatar_size, SizeValues) THEN IntV(32) ELSE avatar_size
    ELSE IF PyIn(avatar_size, SizeKeys) THEN SizeOf(avatar_size)
    ELSE IntV(32)

\* mutant: the color is passed through unchecked
ComboColor_NoClamp(color) == color

\* if color not in VALID_COLORS: color = VALID_COLORS[0]
ComboColor(color) == IF ~PyIn(color, VALID_COLORS) THEN VALID_COLORS[1] ELSE color

\* if default_tab not in VALID_TABS: default_tab = VALID_TABS[0]
ComboTab(default_tab) == IF ~PyIn(default_tab, VALID_TABS) THEN VALID_TABS[1] ELSE default_tab

\* The first exception among the int() calls of a dict display, which are
\* evaluated in the order written.
FirstExc(rs) ==
    LET bad == {i \in 1..Len(rs) : rs[i].exc # "none"}
    IN  IF bad = {} THEN "none" ELSE rs[CHOOSE i \in bad : \A j \in bad : i <= j].exc

disqus_combination_widget(stg, a) ==
    LET n == PyInt(a.num_items)
        e == PyInt(a.excerpt_length)
        exc == FirstExc(<<n, e>>)
    IN  [exc |-> exc,
         ret |-> IF exc # "none" THEN <<>>
                 ELSE [shortname |-> GetShortname(stg, a.shortname),
                       num_items |-> n.n,
                       hide_mods |-> IntInValidTrue(a.hide_mods),
                       color |-> ComboColor(a.color),
                       default_tab |-> ComboTab(a.default_tab),
                       excerpt_length |-> e.n]]

disqus_recent_comments_widget(stg, a) ==
    LET n == PyInt(a.num_items)
        e == PyInt(a.excerpt_length)
        exc == FirstExc(<<n, e>>)
    IN  [exc |-> exc,
         ret |-> IF exc # "none" THEN <<>>
                 ELSE [shortname |-> GetShortname(stg, a.shortname),
                       num_items |-> n.n,
                       hide_avatars |-> IntInValidTrue(a.hide_avatars),
                       avatar_size |-> RecentAvatarSize(a.avatar_size),
                       excerpt_length |-> e.n]]

disqus_popular_threads_widget(stg, a) ==
    LET n == PyInt(a.num_items)
    IN  [exc |-> n.exc,
         ret |-> IF n.exc # "none" THEN <<>>
                 ELSE [shortname |-> GetShortname(stg, a.shortname), num_items |-> n.n]]

\* reads no setting; hide_avatars is computed from hide_mods
disqus_top_commenters_widget(stg, a) ==
    LET n == PyInt(a.num_items)
    IN  [exc |-> n.exc,
         ret |-> IF n.exc # "none" THEN <<>>
                 ELSE [shortname |-> a.shortname,
                       num_items |-> n.n,
                       hide_mods |-> IntInValidTrue(a.hide_mods),
                       hide_avatars |-> IntInValidTrue(a.hide_mods),
                       avatar_size |-> TopAvatarSize(a.avatar_size)]]

\* arguments a template may pass to the widget tags
NumInputs == {IntV(5), StrV(<<"7">>), StrV(<<"abc">>)}
HideInputs ==
    {BoolV(FALSE), BoolV(TRUE), IntV(0), IntV(1), StrV(<<"true">>), StrV(<<"yes">>)}
ColorInputs ==
    {VALID_COLORS[i] : i \in 1..Len(VALID_COLORS)} \cup {StrV(<<"purple">>), IntV(1)}
TabInputs == {VALID_TABS[i] : i \in 1..Len(VALID_TABS)} \cup {StrV(<<"bogus">>)}
SizeInputs ==
    {IntV(n) : n \in {0, 24, 32, 48, 96, 128, 999}}
    \cup {StrV(<<k>>) : k \in {"small", "medium", "large", "x-large", "ginormous", "huge", "48"}}
    \cup {BoolV(TRUE), FloatV(48), NoneV}

\* ------------------------------------------------------------ the machine
EmptyMap == [x \in {} |-> NoneV]
Shortnames == {StrV(<<>>), StrV(<<"arg">>)}
SettingsChoices ==
    {[defined |-> FALSE, value |-> NoneV], [defined |-> TRUE, value |-> StrV(<<"site">>)]}

TokSeqs(k) == UNION {[1..n -> Tokens] : n \in 0..k}

RECURSIVE TokenCount(_)
TokenCount(ns) == IF ns = <<>> THEN 0 ELSE Len(Head(ns).var_value) + TokenCount(Tail(ns))

NoCall == [op |-> "none", args |-> <<>>, pre |-> EmptyMap, exc |-> "none", ret |-> <<>>]

\* The state before a template is compiled: the settings module is loaded and
\* the view has built the context it will render with.
Init ==
    /\ settings \in SettingsChoices
    /\ phase = "parse"
    /\ nodes = <<>>
    /\ pc = 0
    /\ context \in ViewContexts
    /\ written = EmptyMap
    /\ call = NoCall

\* The parser meets one setter tag and calls its compile function.  A
\* TemplateSyntaxError ends the compilation of the template.
CompileTag ==
    /\ phase = "parse"
    /\ Len(nodes) < MaxNodes
    /\ \E tag \in SetterTags, args \in TokSeqs(MaxTokens - TokenCount(nodes)) :
         LET r == Compile(tag, args)
         IN  /\ nodes' = nodes \o r.built
             /\ phase' = IF r.exc = "none" THEN "parse" ELSE "syntax_error"
             /\ call' = [op |-> "compile", args |-> [tag |-> tag, toks |-> args],
                         pre |-> context, exc |-> r.exc, ret |-> r.built]
    /\ UNCHANGED <<settings, pc, context, written>>

\* The template compiled; the host starts rendering it with the context.
StartRender ==
    /\ phase = "parse"
    /\ phase' = "render"
    /\ call' = NoCall
    /\ UNCHANGED <<settings, nodes, pc, context, written>>

\* The renderer reaches the next setter node (document order).  An exception
\* of render leaves the page's render.
RenderNext ==
    /\ phase = "render"
    /\ pc < Len(nodes)
    /\ LET node == nodes[pc + 1]
           r == RenderNode(node, context)
       IN  /\ context' = r.ctx
           /\ phase' = IF r.exc = "none" THEN "render" ELSE "failed"
           /\ written' = IF r.exc = "none"
                         THEN [x \in DOMAIN written \cup {node.var_name} |->
                                 IF x = node.var_name THEN r.value ELSE written[x]]
                         ELSE written
           /\ call' = [op |-> "render", args |-> node, pre |-> context,
                       exc |-> r.exc, ret |-> r.ret]
    /\ pc' = pc + 1
    /\ UNCHANGED <<settings, nodes>>

ShowComments ==
    /\ phase = "render"
    /\ \E shortname \in Shortnames :
         call' = [op |-> "disqus_show_comments", args |-> [shortname |-> shortname],
                  pre |-> context, exc |-> "none",
                  ret |-> disqus_show_comments(settings, context, shortname)]
    /\ UNCHANGED <<settings, phase, nodes, pc, context, written>>

NumReplies ==
    /\ phase = "render"
    /\ \E shortname \in Shortnames :
         call' = [op |-> "disqus_num_replies", args |-> [shortname |-> shortname],
                  pre |-> context, exc |-> "none",
                  ret |-> disqus_num_replies(settings, context, shortname)]
    /\ UNCHANGED <<settings, phase, nodes, pc, context, written>>

\* ---- the widget tags: pure functions of their arguments and the settings.
\* A widget tag about to be rendered: the tag and its resolved arguments.
Pending(op, a) == [op |-> op, args |-> a, pre |-> EmptyMap, exc |-> "pending", ret |-> <<>>]

PendingCalls ==
    {Pending("disqus_combination_widget", a) :
        a \in [shortname : Shortnames, num_items : NumInputs, hide_mods : HideInputs,
               color : ColorInputs, default_tab : TabInputs, excerpt_length : NumInputs]}
    \cup {Pending("disqus_recent_comments_widget", a) :
        a \in [shortname : Shortnames, num_items : NumInputs, hide_avatars : HideInputs,
               avatar_size : SizeInputs, excerpt_length : NumInputs]}
    \cup {Pending("disqus_popular_threads_widget", a) :
        a \in [shortname : Shortnames, num_items : NumInputs]}
    \cup {Pending("disqus_top_commenters_widget", a) :
        a \in [shortname : Shortnames, num_items : NumInputs, hide_mods : HideInputs,
               hide_avatars : HideInputs, avatar_size : SizeInputs]}

\* The render of a template without setter tags has reached a widget tag.
InitWidget ==
    /\ settings \in SettingsChoices
    /\ phase = "render"
    /\ nodes = <<>>
    /\ pc = 0
    /\ context = EmptyMap
    /\ written = EmptyMap
    /\ call \in PendingCalls

Returned(r) == [call EXCEPT !.exc = r.exc, !.ret = r.ret]

CombinationWidget ==
    /\ call.exc = "pending"
    /\ call.op = "disqus_combination_widget"
    /\ call' = Returned(disqus_combination_widget(settings, call.args))
    /\ UNCHANGED <<settings, phase, nodes, pc, context, written>>

RecentCommentsWidget ==
    /\ call.exc = "pending"
    /\ call.op = "disqus_recent_comments_widget"
    /\ call' = Returned(disqus_recent_comments_widget(settings, call.args))
    /\ UNCHANGED <<settings, phase, nodes, pc, context, written>>

PopularThreadsWidget ==
    /\ call.exc = "pending"
    /\ call.op = "disqus_popular_threads_widget"
    /\ call' = Returned(disqus_popular_threads_widget(settings, call.args))
    /\ UNCHANGED <<settings, phase, nodes, pc, context, written>>

TopCommentersWidget ==
    /\ call.exc = "pending"
    /\ call.op = "disqus_top_commenters_widget"
    /\ call' = Returned(disqus_top_commenters_widget(settings, call.args))
    /\ UNCHANGED <<settings, phase, nodes, pc, context, written>>

\* A template of setter tags and the two tags that print the configuration.
Next == CompileTag \/ StartRender \/ RenderNext \/ ShowComments \/ NumReplies

Spec == Init /\ [][Next]_vars

\* One widget tag applied to its arguments.
NextWidget ==
    \/ CombinationWidget
    \/ RecentCommentsWidget
    \/ PopularThreadsWidget
    \/ TopCommentersWidget

SpecWidget == InitWidget /\ [][NextWidget]_vars

\* ================================================================ claims
\* the text a value is written as: a string is its own text, a number is
\* its decimal digits
StringForm(v) == IF v.t = "str" THEN v.s ELSE <<ToString(v.n)>>

IsBareName(tok) == Len(tok) = 1 /\ tok[1] \notin {ToString(n) : n \in 0..9}
LiteralText(tok) == SubSeq(tok, 2, Len(tok) - 1)

\* what the specification says one token resolves to: the variable's text
\* when the token names a variable of the context, its literal text otherwise
SpecResolved(tok, ctx) ==
    IF IsBareName(tok)
    THEN IF tok[1] \in DOMAIN ctx THEN StringForm(ctx[tok[1]]) ELSE tok
    ELSE IF Len(tok) = 1 THEN tok ELSE LiteralText(tok)

RECURSIVE SpecConcat(_, _)
SpecConcat(toks, ctx) ==
    IF toks = <<>> THEN <<>> ELSE SpecResolved(Head(toks), ctx) \o SpecConcat(Tail(toks), ctx)

RECURSIVE SplitLines(_)
\* the lines of a text: the pieces between its newline atoms
SplitLines(text) ==
    IF \A i \in 1..Len(text) : text[i] # "\n" THEN <<text>>
    ELSE LET k == CHOOSE i \in 1..Len(text) :
                    text[i] = "\n" /\ \A j \in 1..(i - 1) : text[j] # "\n"
         IN  <<SubSeq(text, 1, k - 1)>> \o SplitLines(SubSeq(text, k + 1, Len(text)))

Rendered == call.op = "render"
Serialized == call.op \in {"disqus_show_comments", "disqus_num_replies"}

\* C1: compiling a setter tag with zero argument tokens raises
\* TemplateSyntaxError and builds no node, so nothing of it is ever rendered
\* and the context is not written; compiling with one or more tokens raises
\* nothing and builds the node holding exactly those tokens.
C1_ZeroTokensIsSyntaxError ==
    /\ \A i \in 1..Len(nodes) : Len(nodes[i].var_value) >= 1
    /\ call.op = "compile" =>
         /\ (call.exc = "TemplateSyntaxError") <=> (call.args.toks = <<>>)
         /\ call.exc \in {"none", "TemplateSyntaxError"}
         /\ call.args.toks = <<>> => call.ret = <<>> /\ phase = "syntax_error"
         /\ call.args.toks # <<>> =>
              /\ phase = "parse"
              /\ nodes # <<>>
              /\ nodes[Len(nodes)] = [var_name |-> call.args.tag.var_name,
                                      var_value |-> call.args.toks]
    /\ phase = "syntax_error" =>
         /\ call.op = "compile"
         /\ pc = 0
         /\ written = EmptyMap
         /\ context = call.pre

\* a tag without arguments met after a tag that compiled
C1_Witness ==
    /\ phase = "syntax_error"
    /\ call.args.toks = <<>>
    /\ Len(nodes) = 1

\* C2 (as claimed): when a token of a rendered directive names a variable
\* that is not in the context, render does not fail: it writes the text with
\* the token's literal text in place and returns the empty string.
C2_MissingVariableFallsBack ==
    (Rendered /\ \E i \in 1..Len(call.args.var_value) :
                    /\ IsBareName(call.args.var_value[i])
                    /\ call.args.var_value[i][1] \notin DOMAIN call.pre)
    => /\ call.exc = "none"
       /\ phase = "render"
       /\ call.args.var_name \in DOMAIN context
       /\ context[call.args.var_name] = StrV(SpecConcat(call.args.var_value, call.pre))
       /\ call.ret = <<>>

\* C3: a directive with a single token naming a variable of the context
\* writes, under its key, the text of the variable's value at render time;
\* with a single quoted literal it writes the literal's text.
C3_SingleTokenResolves ==
    (Rendered /\ Len(call.args.var_value) = 1) =>
        LET tok == call.args.var_value[1]
            key == call.args.var_name
        IN  /\ (IsBareName(tok) /\ tok[1] \in DOMAIN call.pre) =>
                 /\ call.exc = "none"
                 /\ key \in DOMAIN context
                 /\ context[key] = StrV(StringForm(call.pre[tok[1]]))
            /\ (Len(tok) >= 2 /\ tok[1] = Q /\ tok[Len(tok)] = Q) =>
                 /\ call.exc = "none"
                 /\ key \in DOMAIN context
                 /\ context[key] = StrV(LiteralText(tok))

\* set_disqus_title disqus_url, after an earlier set_disqus_url 1 replaced
\* the number 5 the view had bound: the title is the value at render time
C3_Witness ==
    /\ Rendered
    /\ call.args = [var_name |-> "disqus_title", var_value |-> <<<<"disqus_url">>>>]
    /\ "disqus_url" \in DOMAIN call.pre
    /\ call.pre["disqus_url"] = StrV(<<"1">>)
    /\ nodes[1].var_name = "disqus_url"
    /\ context["disqus_title"] = StrV(<<"1">>)

\* C4 (as claimed): a directive with two or more tokens writes the texts its
\* tokens resolve to (variable first, literal otherwise), concatenated in
\* token order with nothing between them.
C4_ConcatenatesAllTokens ==
    (Rendered /\ Len(call.args.var_value) >= 2) =>
        /\ call.exc = "none"
        /\ call.args.var_name \in DOMAIN context
        /\ context[call.args.var_name] = StrV(SpecConcat(call.args.var_value, call.pre))

\* C4, the part the code does keep: when every token resolves (a literal or
\* a variable of the context), the concatenation in order is what is written.
C4_ConcatenatesResolvableTokens ==
    (/\ Rendered
     /\ Len(call.args.var_value) >= 2
     /\ \A i \in 1..Len(call.args.var_value) :
          IsBareName(call.args.var_value[i]) => call.args.var_value[i][1] \in DOMAIN call.pre)
    => /\ call.exc = "none"
       /\ context[call.args.var_name] = StrV(SpecConcat(call.args.var_value, call.pre))

\* the place of a recognized name in the fixed enumeration
ConfOrder ==
    [n \in {"disqus_developer", "disqus_identifier", "disqus_url", "disqus_title"} |->
        CASE n = "disqus_developer" -> 1
          [] n = "disqus_identifier" -> 2
          [] n = "disqus_url" -> 3
          [] n = "disqus_title" -> 4]

SpecLine(name, v) == <<"\tvar ", name, " = \"">> \o StringForm(v) \o <<"\";">>

\* C5: get_config emits one line '\tvar <name> = "<value>";' for each
\* recognized name in the context and none for any other name, in the fixed
\* enumeration order, joined by one newline with none at the end; it is the
\* empty string when no recognized name is in the context.
C5_SerializeFixedOrder ==
    Serialized =>
        LET present == DOMAIN ConfOrder \cap DOMAIN context
            config == call.ret.config
            lines == SplitLines(config)
            rank(n) == Cardinality({m \in present : ConfOrder[m] <= ConfOrder[n]})
        IN  /\ (present = {}) <=> (config = <<>>)
            /\ present # {} =>
                 /\ Len(lines) = Cardinality(present)
                 /\ \A n \in present : lines[rank(n)] = SpecLine(n, context[n])

\* disqus_title was set before disqus_developer and the view bound a name
\* that is no setting: two or three lines, developer first
C5_Witness ==
    /\ Serialized
    /\ pc = 2
    /\ nodes[1].var_name = "disqus_title"
    /\ nodes[2].var_name = "disqus_developer"
    /\ "u" \in DOMAIN context
    /\ Len(SplitLines(call.ret.config)) = 3

\* C6: the context holds, for every name a directive has set, the value the
\* most recent directive of that name resolved; a render changes its own key
\* and nothing else (and nothing at all when it fails); and get_config emits
\* the last written value.
C6_LastWriteWins ==
    /\ DOMAIN written \subseteq DOMAIN context
    /\ \A k \in DOMAIN written : context[k] = written[k]
    /\ Rendered =>
         /\ call.exc = "none" =>
              /\ DOMAIN context = DOMAIN call.pre \cup {call.args.var_name}
              /\ \A k \in DOMAIN call.pre \ {call.args.var_name} : context[k] = call.pre[k]
         /\ call.exc # "none" => context = call.pre
    /\ Serialized =>
         \A k \in DOMAIN written :
            \E i \in 1..Len(SplitLines(call.ret.config)) :
               SplitLines(call.ret.config)[i] = <<"\tvar ", k, " = \"">> \o written[k].s \o <<"\";">>

\* set_disqus_url "disqus_url" then set_disqus_url 1, then the configuration
\* is printed
C6_Witness ==
    /\ Serialized
    /\ pc = 2
    /\ nodes[1] = [var_name |-> "disqus_url", var_value |-> <<Quoted(<<"disqus_url">>)>>]
    /\ nodes[2] = [var_name |-> "disqus_url", var_value |-> <<<<"1">>>>]
    /\ written = [x \in {"disqus_url"} |-> StrV(<<"1">>)]
    /\ call.ret.config = <<"\tvar ", "disqus_url", " = \"", "1", "\";">>

\* ------------------------------------------------------- widget claims
Returns(op) == call.op = op /\ call.exc = "none"

SpecSizes == {24, 32, 48, 96, 128}
SpecSizeNames ==
    [k \in {"small", "medium", "large", "x-large", "ginormous"} |->
        CASE k = "small" -> 24
          [] k = "medium" -> 32
          [] k = "large" -> 48
          [] k = "x-large" -> 96
          [] k = "ginormous" -> 128]

\* C7: the recent-comments and the top-commenters widget both return an
\* avatar_size in {24, 32, 48, 96, 128}: a size name gives its pixel value, an
\* integer of the set is returned unchanged, anything else gives 32.
C7_AvatarSizeClamped ==
    (Returns("disqus_recent_comments_widget") \/ Returns("disqus_top_commenters_widget")) =>
        LET a == call.args.avatar_size
            r == call.ret.avatar_size
            named == a.t = "str" /\ Len(a.s) = 1 /\ a.s[1] \in DOMAIN SpecSizeNames
            valid == a.t = "int" /\ a.n \in SpecSizes
        IN  /\ r.t = "int"
            /\ r.n \in SpecSizes
            /\ named => r.n = SpecSizeNames[a.s[1]]
            /\ valid => r = a
            /\ (~named /\ ~valid) => r.n = 32

\* the top-commenters widget given 999
C7_Witness ==
    /\ Returns("disqus_top_commenters_widget")
    /\ call.args.avatar_size = IntV(999)
    /\ call.ret.avatar_size = IntV(32)

SpecColors == {<<"blue">>, <<"grey">>, <<"green">>, <<"red">>, <<"orange">>}
SpecTabs == {<<"people">>, <<"recent">>, <<"popular">>}
Convertible(x) ==
    \/ x.t \in {"int", "bool", "float"}
    \/ x.t = "str" /\ x.s \in {<<ToString(d)>> : d \in 0..9}

\* C8: the combination widget never fails on its color or default_tab (it
\* fails only when int() rejects num_items or excerpt_length); the color it
\* returns is the input when that is one of the five colors and "blue"
\* otherwise, the default_tab the input when valid and "people" otherwise.
C8_ColorAndTabClamped ==
    call.op = "disqus_combination_widget" /\ call.exc # "pending" =>
        LET c == call.args.color
            t == call.args.default_tab
        IN  /\ (call.exc = "none") <=>
                  (Convertible(call.args.num_items) /\ Convertible(call.args.excerpt_length))
            /\ call.exc = "none" =>
                 /\ call.ret.color.t = "str" /\ call.ret.color.s \in SpecColors
                 /\ call.ret.color =
                      IF c.t = "str" /\ c.s \in SpecColors THEN c ELSE StrV(<<"blue">>)
                 /\ call.ret.default_tab.t = "str" /\ call.ret.default_tab.s \in SpecTabs
                 /\ call.ret.default_tab =
                      IF t.t = "str" /\ t.s \in SpecTabs THEN t ELSE StrV(<<"people">>)

\* purple and an unknown tab
C8_Witness ==
    /\ Returns("disqus_combination_widget")
    /\ call.args.color = StrV(<<"purple">>)
    /\ call.args.default_tab = StrV(<<"bogus">>)
    /\ call.ret.color = StrV(<<"blue">>)
    /\ call.ret.default_tab = StrV(<<"people">>)

SpecTruthy(x) ==
    \/ x.t = "str" /\ x.s \in {<<"1">>, <<"True">>, <<"true">>, <<"T">>, <<"t">>}
    \/ x.t \in {"int", "bool"} /\ x.n = 1

\* C9 (as claimed): the top-commenters widget returns hide_avatars = 1
\* exactly when its hide_avatars argument is a truthy token, and hide_mods = 1
\* exactly when its hide_mods argument is one.
C9_HideAvatarsFromItsArgument ==
    Returns("disqus_top_commenters_widget") =>
        /\ call.ret.hide_avatars = (IF SpecTruthy(call.args.hide_avatars) THEN 1 ELSE 0)
        /\ call.ret.hide_mods = (IF SpecTruthy(call.args.hide_mods) THEN 1 ELSE 0)

\* C9, the part the code keeps: hide_mods follows the hide_mods argument, and
\* the recent-comments widget's hide_avatars follows its hide_avatars argument.
C9_OtherFlagsFollowTheirArgument ==
    /\ Returns("disqus_top_commenters_widget") =>
         call.ret.hide_mods = (IF SpecTruthy(call.args.hide_mods) THEN 1 ELSE 0)
    /\ Returns("disqus_recent_comments_widget") =>
         call.ret.hide_avatars = (IF SpecTruthy(call.args.hide_avatars) THEN 1 ELSE 0)

\* C10 (as claimed): every widget returns the DISQUS_WEBSITE_SHORTNAME setting
\* as its shortname when the setting is defined, and its shortname argument
\* when it is not.
C10_ShortnameFromSetting ==
    (call.exc = "none" /\ call.op \in
        {"disqus_show_comments", "disqus_num_replies", "disqus_combination_widget",
         "disqus_recent_comments_widget", "disqus_popular_threads_widget",
         "disqus_top_commenters_widget"})
    => call.ret.shortname = (IF settings.defined THEN settings.value ELSE call.args.shortname)

\* C10, the part the code keeps: the five widgets other than top-commenters.
C10_ShortnameFromSettingButTop ==
    (call.exc = "none" /\ call.op \in
        {"disqus_show_comments", "disqus_num_replies", "disqus_combination_widget",
         "disqus_recent_comments_widget", "disqus_popular_threads_widget"})
    => call.ret.shortname = (IF settings.defined THEN settings.value ELSE call.args.shortname)

====
